---- MODULE Spec2Model ----
(***************************************************************************)
(* Model of MadOrange/tg_ai_bot: the conversation flow of AskModule        *)
(* (src/ask_module.py) and the notification log of NotificationManager     *)
(* (src/request_module.py).                                                *)
(*                                                                         *)
(* A text is a sequence of one-character strings.  The Cyrillic prefix of  *)
(* the quick path is written in transliteration ("vopros:").               *)
(***************************************************************************)
EXTENDS Integers, Sequences, FiniteSets, TLC

VARIABLES owner_id,           \* AskModule.owner_id
          owner_telegram_id,  \* NotificationManager.owner_telegram_id
          fsm_state,          \* FSMContext state of every user
          fsm_data,           \* FSMContext data of every user
          log_file,           \* notifications_log.json
          proc,               \* _log_notification calls in flight (SpecRace)
          n_inserted,         \* number of successful appends (SpecTrim, SpecAck)
          n_acks,             \* number of acknowledge calls (SpecAck)
          trimmed_ids,        \* ids of the records trims have dropped (SpecIds)
          ev                  \* the last operation: inputs, API calls, result

vars == <<owner_id, owner_telegram_id, fsm_state, fsm_data, log_file, proc,
          n_inserted, n_acks, trimmed_ids, ev>>

-----------------------------------------------------------------------------
(* Bounds and program constants *)

\* records the log may hold in Spec before send_to_owner stops being called
MaxLog == 1
\* appends of SpecTrim and SpecAck
MaxInserts == 105
\* acknowledge calls of SpecAck
MaxAcks == 1
\* appends of SpecIds
MaxAppends == 203
\* acknowledge calls of SpecLog
MaxReviews == 2
\* _log_notification calls each concurrent caller makes in SpecRace
MaxCalls == 2
\* data["notifications"][-100:]
LogCap == 100
\* user_question[:300]
PreviewLen == 300

Users == {1, 2}
\* the users whose messages callers dispatch with send_to_owner in Spec
Senders == {1}
Callers == {1, 2}

-----------------------------------------------------------------------------
(* Texts *)

None == "None"
\* message.text of a message without text (a photo, a sticker)
NoText == <<"None">>

SP == " "
CmdAskText == <<"/", "a", "s", "k">>
CmdCancelText == <<"/", "c", "a", "n", "c", "e", "l">>
QuickPrefix == <<"v", "o", "p", "r", "o", "s", ":">>
Dots == <<".", ".", ".">>

\* the message texts users send
Texts ==
    { NoText,
      CmdAskText,
      CmdCancelText,
      <<SP, "/", "C", "A", "N", "C", "E", "L", SP>>,
      QuickPrefix \o <<SP, SP>>,
      QuickPrefix \o <<SP, "q", "1">>,
      <<SP, "Q", "2", SP>> }

\* a text one character longer than the confirmation text shows
LongText == [i \in 1..(PreviewLen + 1) |-> IF i > PreviewLen THEN "z" ELSE "x"]

\* the long texts users send as a question
LongTexts == { LongText }

\* the texts callers hand to send_to_owner
Messages == { <<"Q", "2">> }

Min(a, b) == IF a < b THEN a ELSE b

IsSpace(c) == c \in {" ", "\n", "\t"}

RECURSIVE LStrip(_)
LStrip(s) == IF s # <<>> /\ IsSpace(Head(s)) THEN LStrip(Tail(s)) ELSE s

RECURSIVE RStrip(_)
RStrip(s) ==
    IF s # <<>> /\ IsSpace(s[Len(s)]) THEN RStrip(SubSeq(s, 1, Len(s) - 1)) ELSE s

\* str.strip()
Strip(s) == RStrip(LStrip(s))

UpperToLower ==
    [c \in {"A", "C", "E", "L", "N", "Q"} |->
        CASE c = "A" -> "a" [] c = "C" -> "c" [] c = "E" -> "e"
          [] c = "L" -> "l" [] c = "N" -> "n" [] c = "Q" -> "q"]

\* str.lower()
Lower(s) ==
    [i \in 1..Len(s) |-> IF s[i] \in DOMAIN UpperToLower THEN UpperToLower[s[i]] ELSE s[i]]

\* str.startswith(p)
StartsWith(s, p) == Len(s) >= Len(p) /\ SubSeq(s, 1, Len(p)) = p

\* str.replace(p, "", 1): the text without the first occurrence of p
ReplaceFirst(s, p) ==
    LET hits == {i \in 1..(Len(s) - Len(p) + 1) : SubSeq(s, i, i + Len(p) - 1) = p}
    IN  IF hits = {} THEN s
        ELSE LET i == CHOOSE j \in hits : \A k \in hits : j <= k
             IN  SubSeq(s, 1, i - 1) \o SubSeq(s, i + Len(p), Len(s))

\* s[:n]
Take(s, n) == SubSeq(s, 1, Min(Len(s), n))

\* text.split(maxsplit=1)[0]: the first whitespace-separated word
FirstWord(s) ==
    LET t == LStrip(s)
        ends == {i \in 1..Len(t) : IsSpace(t[i])}
    IN  IF ends = {} THEN t
        ELSE SubSeq(t, 1, (CHOOSE j \in ends : \A k \in ends : j <= k) - 1)

\* the Command(name) filter: the first word of the text is the command
CommandMatches(text, cmd) == text # NoText /\ FirstWord(text) = cmd

\* the F.text.startswith("vopros:") filter
QuickMatches(text) == text # NoText /\ StartsWith(text, QuickPrefix)

-----------------------------------------------------------------------------
(* AskModule: conversation flow (src/ask_module.py) *)

\* AskStates, and None for a user without an active state
waiting_for_question == "waiting_for_question"
confirming_question == "confirming_question"
FsmStates == {None, waiting_for_question, confirming_question}

\* OWNER_TELEGRAM_ID: unset, a numeric identifier, or text int() rejects
OwnerEnv == {None, "42", "abc"}

\* `not self.owner_id`
Unset(owner) == owner = None

\* whether int(self.owner_id) returns (it raises ValueError otherwise)
IntParses(owner) == owner = "42"

CallbackData == {"ask_confirm", "ask_cancel", "other"}

\* outcome of the i-th Telegram API call a handler makes: TRUE when it returns,
\* FALSE when it raises
Oracle == [1..4 -> BOOLEAN]

\* the outcomes of a handler that makes at most n calls
Outcomes(n) == {o \in Oracle : \A i \in 1..4 : i > n => o[i]}

\* from_user of each user; user 2 has neither last name nor username
Profile ==
    [u \in Users |->
        IF u = 1
        THEN [id |-> 1, first_name |-> "Ann", last_name |-> "Lee", username |-> "ann"]
        ELSE [id |-> 2, first_name |-> "Bob", last_name |-> None, username |-> None]]

\* `value or default`
OrDefault(value, default) == IF value = None THEN default ELSE value

\* the sender fields of the f-string sent to the owner
Sender(user) ==
    [id         |-> user.id,
     first_name |-> OrDefault(user.first_name, "not specified"),
     last_name  |-> OrDefault(user.last_name, "not specified"),
     username   |-> OrDefault(user.username, "not specified")]

NoSender == [id |-> 0, first_name |-> None, last_name |-> None, username |-> None]

\* one Telegram API call a handler makes, and whether it returned (ok) or raised
Call(api, msg, text, sender, chat, ok) ==
    [api |-> api, msg |-> msg, text |-> text, sender |-> sender, chat |-> chat,
     ok |-> ok]

\* message.answer(msg)
Answer(msg, ok) == Call("answer", msg, <<>>, NoSender, None, ok)

\* callback.message.edit_text(msg)
EditText(msg, ok) == Call("edit_text", msg, <<>>, NoSender, None, ok)

\* callback.answer()
CbAnswer(ok) == Call("cb_answer", "", <<>>, NoSender, None, ok)

\* bot.send_message(chat_id=int(owner), text=owner_message): header, sender
\* fields and the question
SendMessage(owner, user, question, quick, ok) ==
    Call("send_message",
         IF quick THEN "question_from_user_quick" ELSE "question_from_user",
         question, Sender(user), owner, ok)

NoData == [has |-> FALSE, question |-> <<>>]

\* what a handler leaves behind: FSM state and data, the API calls it made,
\* whether an exception left it
Done(st, data, calls, raised) ==
    [st |-> st, data |-> data, calls |-> calls, raised |-> raised]

\* a faulty cmd_ask_owner: the owner identifier is not looked at
cmd_ask_owner_unchecked(owner, st, data, o) ==
    IF o[1]
    THEN Done(waiting_for_question, data, <<Answer("ask_prompt", TRUE)>>, FALSE)
    ELSE Done(st, data, <<Answer("ask_prompt", FALSE)>>, TRUE)

\* cmd_ask_owner
cmd_ask_owner(owner, st, data, o) ==
    IF Unset(owner)
    THEN Done(st, data, <<Answer("unavailable_ask", o[1])>>, ~o[1])
    ELSE IF o[1]
         THEN Done(waiting_for_question, data,
                   <<Answer("ask_prompt", TRUE)>>, FALSE)
         ELSE Done(st, data, <<Answer("ask_prompt", FALSE)>>, TRUE)

\* the confirmation text: the first 300 characters of the question and "..."
Preview(question) == Take(question, PreviewLen) \o Dots

\* a faulty process_ask_question: the text shown for confirmation is stored
process_ask_question_preview(text, st, data, o) ==
    IF text = NoText
    THEN Done(st, data, <<>>, TRUE)
    ELSE LET user_question == Strip(text)
         IN  IF Lower(user_question) = CmdCancelText
             THEN Done(None, NoData,
                       <<Answer("cancelled", o[1])>>, ~o[1])
             ELSE LET stored == [has |-> TRUE, question |-> Take(user_question, PreviewLen)]
                      prompt == Call("answer", "confirm_prompt", Preview(user_question),
                                     NoSender, None, o[1])
                  IN  IF o[1]
                      THEN Done(confirming_question, stored, <<prompt>>, FALSE)
                      ELSE Done(st, stored, <<prompt>>, TRUE)

\* process_ask_question
process_ask_question(text, st, data, o) ==
    IF text = NoText
    THEN Done(st, data, <<>>, TRUE)
    ELSE LET user_question == Strip(text)
         IN  IF Lower(user_question) = CmdCancelText
             THEN Done(None, NoData,
                       <<Answer("cancelled", o[1])>>, ~o[1])
             ELSE LET stored == [has |-> TRUE, question |-> user_question]
                      prompt == Call("answer", "confirm_prompt", Preview(user_question),
                                     NoSender, None, o[1])
                  IN  IF o[1]
                      THEN Done(confirming_question, stored, <<prompt>>, FALSE)
                      ELSE Done(st, stored, <<prompt>>, TRUE)

\* the end of handle_ask_confirmation: state.clear(), callback.answer()
ClearAndAnswer(calls, o) ==
    LET k == Len(calls) + 1
    IN  Done(None, NoData, Append(calls, CbAnswer(o[k])), ~o[k])

\* the except branch of handle_ask_confirmation: the error text is edited in,
\* then the handler goes on to its end
OnConfirmError(st, data, calls, o) ==
    LET k == Len(calls) + 1
        edited == Append(calls, EditText("send_error", o[k]))
    IN  IF o[k] THEN ClearAndAnswer(edited, o) ELSE Done(st, data, edited, TRUE)

\* handle_ask_confirmation
handle_ask_confirmation(owner, user, cb, st, data, o) ==
    LET question == IF data.has THEN data.question ELSE <<>>
    IN  IF cb = "ask_confirm"
        THEN IF Unset(owner)
             THEN LET c1 == <<EditText("no_owner_error", o[1])>>
                      c2 == Append(c1, CbAnswer(o[2]))
                  IN  IF ~o[1] THEN OnConfirmError(st, data, c1, o)
                      ELSE IF o[2] THEN Done(None, NoData, c2, FALSE)
                      ELSE OnConfirmError(None, NoData, c2, o)
             ELSE IF ~IntParses(owner)
                  THEN OnConfirmError(st, data, <<>>, o)
                  ELSE LET c1 == <<SendMessage(owner, user, question, FALSE, o[1])>>
                           c2 == Append(c1, EditText("sent_ok", o[2]))
                       IN  IF ~o[1] THEN OnConfirmError(st, data, c1, o)
                           ELSE IF ~o[2] THEN OnConfirmError(st, data, c2, o)
                           ELSE ClearAndAnswer(c2, o)
        ELSE IF cb = "ask_cancel"
        THEN LET c1 == <<EditText("cancelled", o[1])>>
             IN  IF o[1] THEN ClearAndAnswer(c1, o) ELSE Done(st, data, c1, TRUE)
        ELSE ClearAndAnswer(<<>>, o)

\* the except branch of handle_quick_ask
OnQuickError(st, data, calls, o) ==
    LET k == Len(calls) + 1
    IN  Done(st, data,
             Append(calls, Answer("quick_send_error", o[k])), ~o[k])

\* the try block of handle_quick_ask: int(owner_id), the message to the owner,
\* the answer to the user
QuickDispatch(owner, user, question_text, st, data, o) ==
    IF ~IntParses(owner)
    THEN OnQuickError(st, data, <<>>, o)
    ELSE LET c1 == <<SendMessage(owner, user, question_text, TRUE, o[1])>>
             c2 == Append(c1, Answer("quick_sent_ok", o[2]))
         IN  IF ~o[1] THEN OnQuickError(st, data, c1, o)
             ELSE IF ~o[2] THEN OnQuickError(st, data, c2, o)
             ELSE Done(st, data, c2, FALSE)

\* a faulty handle_quick_ask: the owner identifier is checked before the content
handle_quick_ask_owner_first(owner, user, text, st, data, o) ==
    LET question_text == Strip(ReplaceFirst(text, QuickPrefix))
    IN  IF Unset(owner)
        THEN Done(st, data, <<Answer("unavailable_quick", o[1])>>, ~o[1])
        ELSE IF question_text = <<>>
        THEN Done(st, data, <<Answer("quick_usage", o[1])>>, ~o[1])
        ELSE QuickDispatch(owner, user, question_text, st, data, o)

\* a faulty handle_quick_ask: the FSM context is cleared after the dispatch
handle_quick_ask_clearing(owner, user, text, st, data, o) ==
    LET question_text == Strip(ReplaceFirst(text, QuickPrefix))
    IN  IF question_text = <<>>
        THEN Done(st, data, <<Answer("quick_usage", o[1])>>, ~o[1])
        ELSE IF Unset(owner)
        THEN Done(st, data, <<Answer("unavailable_quick", o[1])>>, ~o[1])
        ELSE LET r == QuickDispatch(owner, user, question_text, st, data, o)
             IN  Done(None, NoData, r.calls, r.raised)

\* handle_quick_ask; it has no FSMContext, st and data pass through
handle_quick_ask(owner, user, text, st, data, o) ==
    LET question_text == Strip(ReplaceFirst(text, QuickPrefix))
    IN  IF question_text = <<>>
        THEN Done(st, data, <<Answer("quick_usage", o[1])>>, ~o[1])
        ELSE IF Unset(owner)
        THEN Done(st, data, <<Answer("unavailable_quick", o[1])>>, ~o[1])
        ELSE QuickDispatch(owner, user, question_text, st, data, o)

\* cmd_cancel
cmd_cancel(st, data, o) ==
    IF st = None
    THEN Done(st, data, <<Answer("nothing_to_cancel", o[1])>>, ~o[1])
    ELSE Done(None, NoData,
              <<Answer("action_cancelled", o[1])>>, ~o[1])

\* register_handlers: the first handler, in registration order, whose filter
\* accepts a message of a user in state st
Route(text, st) ==
    IF CommandMatches(text, CmdAskText) THEN "cmd_ask_owner"
    ELSE IF st = waiting_for_question THEN "process_ask_question"
    ELSE IF QuickMatches(text) THEN "handle_quick_ask"
    ELSE IF CommandMatches(text, CmdCancelText) THEN "cmd_cancel"
    ELSE "unhandled"

-----------------------------------------------------------------------------
(* NotificationManager: dispatch and the notification log
   (src/request_module.py) *)

NotificationTypes == {"user_question", "feedback"}

\* datetime.now().isoformat(): some non-empty text
Now == "iso"

\* user_info of a sender, as callers of send_to_owner build it
UserInfo(u) == Profile[u]

\* the file: absent, unreadable as JSON (valid = FALSE), or a collection
LogFile(exists, valid, notifications) ==
    [exists |-> exists, valid |-> valid, notifications |-> notifications]

EmptyLogFile == LogFile(TRUE, TRUE, <<>>)
MissingLogFile == LogFile(FALSE, TRUE, <<>>)
CorruptFile == LogFile(TRUE, FALSE, <<>>)

\* what the file system does to one read-modify-write cycle: nothing, the read
\* raises, the write raises before touching the file, the write raises after
\* truncating it
IoOutcomes == {"ok", "read_error", "write_denied", "write_partial"}

\* exists() and json.loads(read_text())["notifications"]; a missing file reads
\* as the empty collection
ReadLog(file, io) ==
    IF ~file.exists THEN [ok |-> TRUE, notifications |-> <<>>]
    ELSE IF io = "read_error" \/ ~file.valid THEN [ok |-> FALSE, notifications |-> <<>>]
    ELSE [ok |-> TRUE, notifications |-> file.notifications]

\* the collection a successful read of the file returns
Readable(file) == ReadLog(file, "ok").notifications

\* the file can be read: it is absent or holds a collection
CanRead(file) == ReadLog(file, "ok").ok

\* write_text(json.dumps(data)): the whole file is overwritten
WriteLog(file, notifications, io) ==
    IF io = "write_denied" THEN [ok |-> FALSE, file |-> file]
    ELSE IF io = "write_partial" THEN [ok |-> FALSE, file |-> CorruptFile]
    ELSE [ok |-> TRUE, file |-> LogFile(TRUE, TRUE, notifications)]

\* a faulty id assignment: one more than the largest id in the collection
NewNotificationMaxId(notifications, message, user_info, notification_type) ==
    LET ids == {notifications[i].id : i \in 1..Len(notifications)}
    IN  [id          |-> IF ids = {} THEN 1
                         ELSE (CHOOSE m \in ids : \A k \in ids : k <= m) + 1,
         timestamp   |-> Now,
         type        |-> notification_type,
         user_info   |-> user_info,
         message     |-> message,
         status      |-> "pending",
         reviewed_at |-> None]

\* the new record of _log_notification: id is the current count plus one
NewNotification(notifications, message, user_info, notification_type) ==
    [id          |-> Len(notifications) + 1,
     timestamp   |-> Now,
     type        |-> notification_type,
     user_info   |-> user_info,
     message     |-> message,
     status      |-> "pending",
     reviewed_at |-> None]

\* a faulty trim: the first 100 records are kept, [:100]
TrimHead(notifications) ==
    IF Len(notifications) > LogCap THEN SubSeq(notifications, 1, LogCap)
    ELSE notifications

\* data["notifications"][-100:] when there are more than 100
Trim(notifications) ==
    IF Len(notifications) > LogCap
    THEN SubSeq(notifications, Len(notifications) - LogCap + 1, Len(notifications))
    ELSE notifications

\* append and trim
AppendAndTrim(notifications, notification) == Trim(Append(notifications, notification))

\* _log_notification: the file afterwards and the returned dict
_log_notification(file, message, user_info, notification_type, io) ==
    LET r == ReadLog(file, io)
        notification == NewNotification(r.notifications, message, user_info,
                                        notification_type)
        w == WriteLog(file, AppendAndTrim(r.notifications, notification), io)
    IN  IF ~r.ok THEN [file |-> file, success |-> FALSE, notification_id |-> 0]
        ELSE IF ~w.ok THEN [file |-> w.file, success |-> FALSE, notification_id |-> 0]
        ELSE [file |-> w.file, success |-> TRUE, notification_id |-> notification.id]

\* _format_notification_message: header for the type, sender fields, message
Header(notification_type) ==
    CASE notification_type = "user_question" -> "question_from_user"
      [] notification_type = "feedback" -> "feedback"
      [] notification_type = "urgent" -> "urgent"
      [] OTHER -> "notification"

\* _send_telegram_notification: one bot_instance.send_message, any exception
\* is turned into success = False
_send_telegram_notification(owner, message, user_info, notification_type, tx) ==
    [success |-> tx,
     call    |-> Call("send_message", Header(notification_type), message,
                      [id |-> user_info.id, first_name |-> user_info.first_name,
                       last_name |-> user_info.last_name,
                       username |-> user_info.username],
                      owner, tx)]

\* the value an operation returns; an operation fills the fields it has
NoRet ==
    [telegram_sent |-> FALSE, email_sent |-> FALSE, logged |-> FALSE,
     errors |-> <<>>, notification_id |-> 0, found |-> FALSE, pending |-> <<>>]

\* a faulty send_to_owner: nothing is transmitted when the log append failed
send_to_owner_gated(file, owner, message, user_info, bot_instance, notification_type, io, tx) ==
    LET log_result == _log_notification(file, message, user_info, notification_type, io)
        attempt == ~Unset(owner) /\ bot_instance # None /\ log_result.success
        telegram_result ==
            _send_telegram_notification(owner, message, user_info, notification_type, tx)
        errors1 == IF log_result.success THEN <<>> ELSE <<"Log error">>
        errors2 == IF attempt /\ ~telegram_result.success
                   THEN Append(errors1, "Telegram error") ELSE errors1
    IN  [file  |-> log_result.file,
         calls |-> IF attempt THEN <<telegram_result.call>> ELSE <<>>,
         ret   |-> [NoRet EXCEPT !.logged = log_result.success,
                                 !.notification_id = log_result.notification_id,
                                 !.telegram_sent = attempt /\ telegram_result.success,
                                 !.errors = errors2]]

\* send_to_owner: the log append, then the transmission when an owner
\* identifier and a bot instance are there
send_to_owner(file, owner, message, user_info, bot_instance, notification_type, io, tx) ==
    LET log_result == _log_notification(file, message, user_info, notification_type, io)
        attempt == ~Unset(owner) /\ bot_instance # None
        telegram_result ==
            _send_telegram_notification(owner, message, user_info, notification_type, tx)
        errors1 == IF log_result.success THEN <<>> ELSE <<"Log error">>
        errors2 == IF attempt /\ ~telegram_result.success
                   THEN Append(errors1, "Telegram error") ELSE errors1
    IN  [file  |-> log_result.file,
         calls |-> IF attempt THEN <<telegram_result.call>> ELSE <<>>,
         ret   |-> [NoRet EXCEPT !.logged = log_result.success,
                                 !.notification_id = log_result.notification_id,
                                 !.telegram_sent = attempt /\ telegram_result.success,
                                 !.errors = errors2]]

\* a faulty get_pending_notifications: the status is not looked at
get_pending_notifications_all(file, io) ==
    LET r == ReadLog(file, io)
    IN  IF ~file.exists \/ ~r.ok THEN <<>> ELSE r.notifications

\* get_pending_notifications
get_pending_notifications(file, io) ==
    LET r == ReadLog(file, io)
    IN  IF ~file.exists \/ ~r.ok THEN <<>>
        ELSE SelectSeq(r.notifications, LAMBDA n : n.status = "pending")

\* the record of mark_notification_as_reviewed after the update; now is
\* datetime.now().isoformat() at the call
Reviewed(notification, now) ==
    [notification EXCEPT !.status = "reviewed", !.reviewed_at = now]

\* position of the first record whose id is notification_id, 0 when none
FirstMatch(notifications, notification_id) ==
    LET hits == {i \in 1..Len(notifications) : notifications[i].id = notification_id}
    IN  IF hits = {} THEN 0 ELSE CHOOSE i \in hits : \A j \in hits : i <= j

\* position of the first pending record whose id is notification_id, 0 when
\* none
FirstPendingMatch(notifications, notification_id) ==
    LET hits == {i \in 1..Len(notifications) :
                    /\ notifications[i].id = notification_id
                    /\ notifications[i].status = "pending"}
    IN  IF hits = {} THEN 0 ELSE CHOOSE i \in hits : \A j \in hits : i <= j

\* a faulty mark_notification_as_reviewed: records already reviewed are
\* passed over
mark_notification_as_reviewed_pending(file, notification_id, io, now) ==
    LET r == ReadLog(file, io)
        i == FirstPendingMatch(r.notifications, notification_id)
        w == WriteLog(file,
                      [r.notifications EXCEPT ![i] = Reviewed(r.notifications[i], now)],
                      io)
    IN  IF ~file.exists \/ ~r.ok \/ i = 0 THEN [file |-> file, found |-> FALSE]
        ELSE [file |-> w.file, found |-> w.ok]

\* mark_notification_as_reviewed: the file afterwards and the returned bool
mark_notification_as_reviewed(file, notification_id, io, now) ==
    LET r == ReadLog(file, io)
        i == FirstMatch(r.notifications, notification_id)
        w == WriteLog(file,
                      [r.notifications EXCEPT ![i] = Reviewed(r.notifications[i], now)],
                      io)
    IN  IF ~file.exists \/ ~r.ok \/ i = 0 THEN [file |-> file, found |-> FALSE]
        ELSE [file |-> w.file, found |-> w.ok]

-----------------------------------------------------------------------------
(* State machine *)

\* the last operation: its name and inputs (io: what the file system did to
\* it), the Telegram API calls it made,
\* whether an exception left it, the value it returned
Event(op, user, text, cb, bot, id, io, calls, raised, ret) ==
    [op |-> op, user |-> user, text |-> text, cb |-> cb, bot |-> bot, id |-> id,
     io |-> io, calls |-> calls, raised |-> raised, ret |-> ret]

NoNotification == NewNotification(<<>>, <<>>, UserInfo(1), "user_question")

NoRival == [set |-> FALSE, logged |-> FALSE, notification |-> NoNotification]

\* a caller of _log_notification: where it is in the read-modify-write cycle,
\* the collection it read, its message, the calls it has started, and the
\* record another caller wrote between its read and its write
IdleProc ==
    [pc |-> "idle", snapshot |-> <<>>, message |-> <<>>, calls |-> 0, rival |-> NoRival]

\* AskModule.__init__ and NotificationManager.__init__ (with _ensure_log_file),
\* both given OWNER_TELEGRAM_ID
Init ==
    /\ owner_id \in OwnerEnv
    /\ owner_telegram_id = owner_id
    /\ fsm_state = [u \in Users |-> None]
    /\ fsm_data = [u \in Users |-> NoData]
    /\ log_file = EmptyLogFile
    /\ proc = [c \in Callers |-> IdleProc]
    /\ n_inserted = 0
    /\ n_acks = 0
    /\ trimmed_ids = {}
    /\ ev = Event("init", 0, <<>>, None, None, 0, None, <<>>, FALSE, NoRet)

\* a handler of AskModule has run for user u and left r
AskStep(op, u, text, cb, r) ==
    /\ fsm_state' = [fsm_state EXCEPT ![u] = r.st]
    /\ fsm_data' = [fsm_data EXCEPT ![u] = r.data]
    /\ ev' = Event(op, u, text, cb, None, 0, None, r.calls, r.raised, NoRet)
    /\ UNCHANGED <<trimmed_ids, owner_id, owner_telegram_id, log_file, proc, n_inserted, n_acks>>

CmdAskOwner(u) ==
    \E text \in Texts, o \in Outcomes(1) :
        /\ Route(text, fsm_state[u]) = "cmd_ask_owner"
        /\ AskStep("cmd_ask_owner", u, text, None,
                   cmd_ask_owner(owner_id, fsm_state[u], fsm_data[u], o))

ProcessAskQuestion(u) ==
    \E text \in Texts, o \in Outcomes(1) :
        /\ Route(text, fsm_state[u]) = "process_ask_question"
        /\ AskStep("process_ask_question", u, text, None,
                   process_ask_question(text, fsm_state[u], fsm_data[u], o))

\* callback queries reach the handler only in confirming_question
HandleAskConfirmation(u) ==
    \E cb \in CallbackData, o \in Outcomes(4) :
        /\ fsm_state[u] = confirming_question
        /\ AskStep("handle_ask_confirmation", u, <<>>, cb,
                   handle_ask_confirmation(owner_id, Profile[u], cb,
                                           fsm_state[u], fsm_data[u], o))

HandleQuickAsk(u) ==
    \E text \in Texts, o \in Outcomes(3) :
        /\ Route(text, fsm_state[u]) = "handle_quick_ask"
        /\ AskStep("handle_quick_ask", u, text, None,
                   handle_quick_ask(owner_id, Profile[u], text,
                                    fsm_state[u], fsm_data[u], o))

CmdCancel(u) ==
    \E text \in Texts, o \in Outcomes(1) :
        /\ Route(text, fsm_state[u]) = "cmd_cancel"
        /\ AskStep("cmd_cancel", u, text, None,
                   cmd_cancel(fsm_state[u], fsm_data[u], o))

\* a caller dispatches a message of user u
SendToOwner(u) ==
    \E message \in Messages, bot_instance \in {None, "bot"},
       notification_type \in NotificationTypes, io \in IoOutcomes, tx \in BOOLEAN :
        /\ Len(log_file.notifications) < MaxLog
        /\ LET r == send_to_owner(log_file, owner_telegram_id, message, UserInfo(u),
                                  bot_instance, notification_type, io, tx)
           IN  /\ log_file' = r.file
               /\ ev' = Event("send_to_owner", u, message, None, bot_instance, 0, io,
                              r.calls, FALSE, r.ret)
        /\ UNCHANGED <<trimmed_ids, owner_id, owner_telegram_id, fsm_state, fsm_data, proc,
                       n_inserted, n_acks>>

MarkReviewed ==
    \E notification_id \in 1..(MaxLog + 1), io \in IoOutcomes :
        /\ LET r == mark_notification_as_reviewed(log_file, notification_id, io, Now)
           IN  /\ log_file' = r.file
               /\ ev' = Event("mark_notification_as_reviewed", 0, <<>>, None, None,
                              notification_id, io, <<>>, FALSE,
                              [NoRet EXCEPT !.found = r.found])
        /\ UNCHANGED <<trimmed_ids, owner_id, owner_telegram_id, fsm_state, fsm_data, proc,
                       n_inserted, n_acks>>

GetPending ==
    \E io \in {"ok", "read_error"} :
        /\ ev' = Event("get_pending_notifications", 0, <<>>, None, None, 0, io, <<>>,
                       FALSE,
                       [NoRet EXCEPT !.pending = get_pending_notifications(log_file, io)])
        /\ UNCHANGED <<trimmed_ids, owner_id, owner_telegram_id, fsm_state, fsm_data, log_file,
                       proc, n_inserted, n_acks>>

\* the file is deleted from outside the program
RemoveLogFile ==
    /\ log_file.exists
    /\ log_file' = MissingLogFile
    /\ ev' = Event("remove_log_file", 0, <<>>, None, None, 0, None, <<>>, FALSE,
                  NoRet)
    /\ UNCHANGED <<trimmed_ids, owner_id, owner_telegram_id, fsm_state, fsm_data, proc,
                   n_inserted, n_acks>>

Next ==
    \/ \E u \in Users : CmdAskOwner(u)
    \/ \E u \in Users : ProcessAskQuestion(u)
    \/ \E u \in Users : HandleAskConfirmation(u)
    \/ \E u \in Users : HandleQuickAsk(u)
    \/ \E u \in Users : CmdCancel(u)
    \/ \E u \in Senders : SendToOwner(u)
    \/ MarkReviewed
    \/ GetPending
    \/ RemoveLogFile

Spec == Init /\ [][Next]_vars

-----------------------------------------------------------------------------
(* Sequential appends and acknowledgements on a long log *)

\* the message of the n-th inserted record
Label(n) == <<n>>

\* one _log_notification call; appends that fail are not counted
LogNotification ==
    \E io \in IoOutcomes :
        /\ n_inserted < MaxInserts
        /\ LET r == _log_notification(log_file, Label(n_inserted + 1), UserInfo(1),
                                      "user_question", io)
           IN  /\ log_file' = r.file
               /\ n_inserted' = IF r.success THEN n_inserted + 1 ELSE n_inserted
               /\ ev' = Event("_log_notification", 1, Label(n_inserted + 1), None, None,
                              0, io, <<>>, FALSE,
                              [NoRet EXCEPT !.logged = r.success,
                                            !.notification_id = r.notification_id])
        /\ UNCHANGED <<trimmed_ids, owner_id, owner_telegram_id, fsm_state, fsm_data, proc, n_acks>>

\* one mark_notification_as_reviewed call on the long log
Acknowledge ==
    \E notification_id \in 1..(LogCap + 1), io \in IoOutcomes :
        /\ n_acks < MaxAcks
        /\ LET r == mark_notification_as_reviewed(log_file, notification_id, io, Now)
           IN  /\ log_file' = r.file
               /\ ev' = Event("mark_notification_as_reviewed", 0, <<>>, None, None,
                              notification_id, io, <<>>, FALSE,
                              [NoRet EXCEPT !.found = r.found])
        /\ n_acks' = n_acks + 1
        /\ UNCHANGED <<trimmed_ids, owner_id, owner_telegram_id, fsm_state, fsm_data, proc,
                       n_inserted>>

NextTrim == LogNotification

SpecTrim == Init /\ [][NextTrim]_vars

NextAck ==
    \/ LogNotification
    \/ Acknowledge

SpecAck == Init /\ [][NextAck]_vars

-----------------------------------------------------------------------------
(* Sequential appends far beyond the first trim, with the ids of the dropped
   records kept *)

\* the ids of the records that are in `before` and no longer in `after`,
\* which holds a suffix of `before` and one new record
DroppedIds(before, after) ==
    {before[i].id : i \in 1..(Len(before) + 1 - Len(after))}

\* one _log_notification call
AppendRecord ==
    \E io \in IoOutcomes :
        /\ n_inserted < MaxAppends
        /\ LET r == _log_notification(log_file, Label(n_inserted + 1), UserInfo(1),
                                      "user_question", io)
           IN  /\ log_file' = r.file
               /\ n_inserted' = IF r.success THEN n_inserted + 1 ELSE n_inserted
               /\ trimmed_ids' =
                     IF r.success
                     THEN trimmed_ids
                            \cup DroppedIds(Readable(log_file), r.file.notifications)
                     ELSE trimmed_ids
               /\ ev' = Event("_log_notification", 1, Label(n_inserted + 1), None, None,
                              0, io, <<>>, FALSE,
                              [NoRet EXCEPT !.logged = r.success,
                                            !.notification_id = r.notification_id])
        /\ UNCHANGED <<owner_id, owner_telegram_id, fsm_state, fsm_data, proc, n_acks>>

NextIds == AppendRecord

SpecIds == Init /\ [][NextIds]_vars

-----------------------------------------------------------------------------
(* One send_to_owner call as two steps: the log append, then the transmission *)

\* lines 65-79 of send_to_owner: the results dict is created and the log
\* append is made
log_step(file, message, user_info, notification_type, io) ==
    LET log_result == _log_notification(file, message, user_info, notification_type, io)
    IN  [file    |-> log_result.file,
         results |-> [NoRet EXCEPT !.logged = log_result.success,
                                   !.notification_id = log_result.notification_id,
                                   !.errors = IF log_result.success THEN <<>>
                                              ELSE <<"Log error">>]]

\* a faulty transmission step: the bot instance is not looked at
transmit_step_owner_only(owner, message, user_info, bot_instance, notification_type, results, tx) ==
    LET attempt == ~Unset(owner)
        telegram_result ==
            _send_telegram_notification(owner, message, user_info, notification_type, tx)
    IN  [calls   |-> IF attempt THEN <<telegram_result.call>> ELSE <<>>,
         results |-> [results EXCEPT
                        !.telegram_sent = attempt /\ telegram_result.success,
                        !.errors = IF attempt /\ ~telegram_result.success
                                   THEN Append(@, "Telegram error") ELSE @]]

\* lines 81-92 of send_to_owner: the transmission when an owner identifier
\* and a bot instance are there, and the return of the results
transmit_step(owner, message, user_info, bot_instance, notification_type, results, tx) ==
    LET attempt == ~Unset(owner) /\ bot_instance # None
        telegram_result ==
            _send_telegram_notification(owner, message, user_info, notification_type, tx)
    IN  [calls   |-> IF attempt THEN <<telegram_result.call>> ELSE <<>>,
         results |-> [results EXCEPT
                        !.telegram_sent = attempt /\ telegram_result.success,
                        !.errors = IF attempt /\ ~telegram_result.success
                                   THEN Append(@, "Telegram error") ELSE @]]

\* a caller starts send_to_owner with the default notification type; the call
\* has made its log append and holds its results so far
DispatchLog(u) ==
    \E message \in Messages, bot_instance \in {None, "bot"}, io \in IoOutcomes :
        /\ ev.op # "send_to_owner.log"
        /\ Len(log_file.notifications) < MaxLog
        /\ LET r == log_step(log_file, message, UserInfo(u), "user_question", io)
           IN  /\ log_file' = r.file
               /\ ev' = Event("send_to_owner.log", u, message, None, bot_instance, 0,
                              io, <<>>, FALSE, r.results)
        /\ UNCHANGED <<trimmed_ids, owner_id, owner_telegram_id, fsm_state, fsm_data,
                       proc, n_inserted, n_acks>>

\* the call in progress goes on to the transmission and returns
DispatchTransmit ==
    \E tx \in BOOLEAN :
        /\ ev.op = "send_to_owner.log"
        /\ LET r == transmit_step(owner_telegram_id, ev.text, UserInfo(ev.user), ev.bot,
                                  "user_question", ev.ret, tx)
           IN  ev' = Event("send_to_owner", ev.user, ev.text, None, ev.bot, 0, ev.io,
                           r.calls, FALSE, r.results)
        /\ UNCHANGED <<trimmed_ids, owner_id, owner_telegram_id, fsm_state, fsm_data,
                       log_file, proc, n_inserted, n_acks>>

NextDispatch ==
    \/ \E u \in Users : DispatchLog(u)
    \/ DispatchTransmit
    \/ MarkReviewed
    \/ RemoveLogFile

SpecDispatch == Init /\ [][NextDispatch]_vars

-----------------------------------------------------------------------------
(* Appends, acknowledgements and queries on a log that earlier runs have
   filled nearly to its cap; every acknowledgement reads the clock *)

\* the file after n <= 100 successful sequential appends to the empty log:
\* the i-th record was appended to a collection of i - 1 records, and nothing
\* has been trimmed
Filled(n) ==
    LogFile(TRUE, TRUE,
            [i \in 1..n |->
                NewNotification([k \in 1..(i - 1) |-> NoNotification], Label(i),
                                UserInfo(1), "user_question")])

\* datetime.now().isoformat() at the k-th acknowledge call
Stamps == <<"iso1", "iso2", "iso3", "iso4">>

\* the ids acknowledge calls are made with: an old one, the two newest before the first
\* trim, the one every later record gets, and one no record gets
ReviewIds == {1, LogCap - 1, LogCap, LogCap + 1, LogCap + 2}

\* __init__ with _ensure_log_file, which keeps an existing file: the manager
\* starts on the log that 99 appends of earlier runs left
InitLog ==
    /\ owner_id \in OwnerEnv
    /\ owner_telegram_id = owner_id
    /\ fsm_state = [u \in Users |-> None]
    /\ fsm_data = [u \in Users |-> NoData]
    /\ log_file = Filled(LogCap - 1)
    /\ proc = [c \in Callers |-> IdleProc]
    /\ n_inserted = LogCap - 1
    /\ n_acks = 0
    /\ trimmed_ids = {}
    /\ ev = Event("init", 0, <<>>, None, None, 0, None, <<>>, FALSE, NoRet)

\* one mark_notification_as_reviewed call
Review ==
    \E notification_id \in ReviewIds, io \in IoOutcomes :
        /\ n_acks < MaxReviews
        /\ LET r == mark_notification_as_reviewed(log_file, notification_id, io,
                                                  Stamps[n_acks + 1])
           IN  /\ log_file' = r.file
               /\ ev' = Event("mark_notification_as_reviewed", 0, <<>>, None, None,
                              notification_id, io, <<>>, FALSE,
                              [NoRet EXCEPT !.found = r.found])
        /\ n_acks' = n_acks + 1
        /\ UNCHANGED <<trimmed_ids, owner_id, owner_telegram_id, fsm_state, fsm_data,
                       proc, n_inserted>>

NextLog ==
    \/ LogNotification
    \/ Review
    \/ GetPending
    \/ RemoveLogFile

SpecLog == InitLog /\ [][NextLog]_vars

-----------------------------------------------------------------------------
(* Concurrent callers of _log_notification: the read and the write of one
   cycle are separate steps, and another caller may run between them *)

\* lines 169-172: the caller reads the collection
LogRead(c) ==
    \E message \in Messages, io \in {"ok", "read_error"} :
        /\ proc[c].pc = "idle"
        /\ proc[c].calls < MaxCalls
        /\ LET r == ReadLog(log_file, io)
           IN  IF r.ok
               THEN /\ proc' = [proc EXCEPT ![c] =
                                   [pc |-> "read", snapshot |-> r.notifications,
                                    message |-> message, calls |-> @.calls + 1,
                                    rival |-> NoRival]]
                    /\ ev' = Event("read_log", c, message, None, None, 0, io, <<>>,
                                   FALSE, NoRet)
               ELSE /\ proc' = [proc EXCEPT ![c] =
                                   [IdleProc EXCEPT !.calls = proc[c].calls + 1]]
                    /\ ev' = Event("_log_notification", c, message, None, None, 0,
                                   io, <<>>, FALSE, NoRet)
        /\ UNCHANGED <<trimmed_ids, owner_id, owner_telegram_id, fsm_state, fsm_data, log_file,
                       n_inserted, n_acks>>

\* a faulty write step: the record is appended to what the file holds at the
\* write, as if the cycle were atomic
LogWriteMerged(c) ==
    \E io \in {"ok", "write_denied", "write_partial"} :
        /\ proc[c].pc = "read"
        /\ LET notification == NewNotification(proc[c].snapshot, proc[c].message,
                                               UserInfo(c), "user_question")
               w == WriteLog(log_file, AppendAndTrim(Readable(log_file), notification), io)
           IN  /\ log_file' = w.file
               /\ proc' = [d \in Callers |->
                            IF d = c THEN [proc[c] EXCEPT !.pc = "idle"]
                            ELSE IF /\ w.ok
                                    /\ proc[d].pc = "read"
                                    /\ proc[d].snapshot = proc[c].snapshot
                                 THEN [proc[d] EXCEPT !.rival =
                                          [set |-> TRUE, logged |-> w.ok,
                                           notification |-> notification]]
                                 ELSE proc[d]]
               /\ ev' = Event("_log_notification", c, proc[c].message, None, None, 0,
                              io, <<>>, FALSE,
                              [NoRet EXCEPT !.logged = w.ok,
                                            !.notification_id =
                                                IF w.ok THEN notification.id ELSE 0])
        /\ UNCHANGED <<trimmed_ids, owner_id, owner_telegram_id, fsm_state, fsm_data,
                       n_inserted, n_acks>>

\* lines 175-194: the caller appends to what it read, trims and overwrites
\* the file
LogWrite(c) ==
    \E io \in {"ok", "write_denied", "write_partial"} :
        /\ proc[c].pc = "read"
        /\ LET notification == NewNotification(proc[c].snapshot, proc[c].message,
                                               UserInfo(c), "user_question")
               w == WriteLog(log_file, AppendAndTrim(proc[c].snapshot, notification), io)
           IN  /\ log_file' = w.file
               /\ proc' = [d \in Callers |->
                            IF d = c THEN [proc[c] EXCEPT !.pc = "idle"]
                            ELSE IF /\ w.ok
                                    /\ proc[d].pc = "read"
                                    /\ proc[d].snapshot = proc[c].snapshot
                                 THEN [proc[d] EXCEPT !.rival =
                                          [set |-> TRUE, logged |-> w.ok,
                                           notification |-> notification]]
                                 ELSE proc[d]]
               /\ ev' = Event("_log_notification", c, proc[c].message, None, None, 0,
                              io, <<>>, FALSE,
                              [NoRet EXCEPT !.logged = w.ok,
                                            !.notification_id =
                                                IF w.ok THEN notification.id ELSE 0])
        /\ UNCHANGED <<trimmed_ids, owner_id, owner_telegram_id, fsm_state, fsm_data,
                       n_inserted, n_acks>>

NextRace ==
    \/ \E c \in Callers : LogRead(c)
    \/ \E c \in Callers : LogWrite(c)

SpecRace == Init /\ [][NextRace]_vars

-----------------------------------------------------------------------------
(* The conversation flow alone, with questions longer than the preview *)

\* a user in waiting_for_question sends a long text
ProcessLongQuestion(u) ==
    \E text \in LongTexts, o \in Outcomes(1) :
        /\ Route(text, fsm_state[u]) = "process_ask_question"
        /\ AskStep("process_ask_question", u, text, None,
                   process_ask_question(text, fsm_state[u], fsm_data[u], o))

NextFlow ==
    \/ \E u \in Users : CmdAskOwner(u)
    \/ \E u \in Users : ProcessAskQuestion(u)
    \/ \E u \in Users : ProcessLongQuestion(u)
    \/ \E u \in Users : HandleAskConfirmation(u)
    \/ \E u \in Users : HandleQuickAsk(u)
    \/ \E u \in Users : CmdCancel(u)

SpecFlow == Init /\ [][NextFlow]_vars

-----------------------------------------------------------------------------
(* Concurrent callers of _log_notification and mark_notification_as_reviewed:
   each cycle reads the file in one step and overwrites it in a later one *)

\* lines 216-217: the caller of mark_notification_as_reviewed reads the
\* collection (nothing is read when the file is missing)
AckRead(c) ==
    \E io \in {"ok", "read_error"} :
        /\ proc[c].pc = "idle"
        /\ proc[c].calls < MaxCalls
        /\ LET r == ReadLog(log_file, io)
           IN  IF log_file.exists /\ r.ok
               THEN /\ proc' = [proc EXCEPT ![c] =
                                   [pc |-> "ack_read", snapshot |-> r.notifications,
                                    message |-> <<>>, calls |-> @.calls + 1,
                                    rival |-> NoRival]]
                    /\ ev' = Event("read_log", c, <<>>, None, None, 0, io, <<>>,
                                   FALSE, NoRet)
               ELSE /\ proc' = [proc EXCEPT ![c] =
                                   [IdleProc EXCEPT !.calls = proc[c].calls + 1]]
                    /\ ev' = Event("mark_notification_as_reviewed", c, <<>>, None,
                                   None, 0, io, <<>>, FALSE, NoRet)
        /\ UNCHANGED <<trimmed_ids, owner_id, owner_telegram_id, fsm_state, fsm_data,
                       log_file, n_inserted, n_acks>>

\* lines 219-228: the caller updates the first match in what it read and
\* overwrites the file, or returns False without a write when nothing
\* matches; the id it was called with does not depend on the file and is
\* drawn here
AckWrite(c) ==
    \E notification_id \in 1..(MaxCalls + 1),
       io \in {"ok", "write_denied", "write_partial"} :
        /\ proc[c].pc = "ack_read"
        /\ LET i == FirstMatch(proc[c].snapshot, notification_id)
               w == WriteLog(log_file,
                             [proc[c].snapshot EXCEPT
                                 ![i] = Reviewed(proc[c].snapshot[i], Now)], io)
           IN  /\ log_file' = IF i = 0 THEN log_file ELSE w.file
               /\ ev' = Event("mark_notification_as_reviewed", c, <<>>, None, None,
                              notification_id, io, <<>>, FALSE,
                              [NoRet EXCEPT !.found = (i # 0 /\ w.ok)])
        /\ proc' = [proc EXCEPT ![c] = [@ EXCEPT !.pc = "idle"]]
        /\ UNCHANGED <<trimmed_ids, owner_id, owner_telegram_id, fsm_state, fsm_data,
                       n_inserted, n_acks>>

NextRaceAck ==
    \/ \E c \in Callers : LogRead(c)
    \/ \E c \in Callers : LogWrite(c)
    \/ \E c \in Callers : AckRead(c)
    \/ \E c \in Callers : AckWrite(c)

SpecRaceAck == Init /\ [][NextRaceAck]_vars

-----------------------------------------------------------------------------
(* Claims *)

\* the calls of the last operation that transmit to the owner
Transmissions(e) == SelectSeq(e.calls, LAMBDA c : c.api = "send_message")

\* the last operation made exactly the call api(msg)
Replied(e, api, msg) ==
    /\ Len(e.calls) = 1
    /\ e.calls[1].api = api
    /\ e.calls[1].msg = msg

\* C1: with the owner configured, a confirm choice for the collected question T
\* makes the notification log gain exactly one record, with message T, type
\* "user_question" and status "pending".
C1_ConfirmRoundTrip ==
    [][(/\ ev'.op = "handle_ask_confirmation"
        /\ ev'.cb = "ask_confirm"
        /\ ~Unset(owner_id)
        /\ fsm_data[ev'.user].has
        /\ ~ev'.raised
        /\ \A i \in DOMAIN ev'.calls : ev'.calls[i].ok)
       => LET before == log_file.notifications
              after == log_file'.notifications
          IN  /\ Len(after) = Len(before) + 1
              /\ SubSeq(after, 1, Len(before)) = before
              /\ after[Len(after)].message = fsm_data[ev'.user].question
              /\ after[Len(after)].type = "user_question"
              /\ after[Len(after)].status = "pending"]_vars

\* C2 as stated: with the owner identifier unset, every entry point answers
\* with the feature-unavailable message, changes no conversation state and
\* writes nothing to the log.
C2_Original ==
    [][(/\ Unset(owner_id)
        /\ ev'.op \in {"cmd_ask_owner", "process_ask_question",
                       "handle_ask_confirmation", "handle_quick_ask", "cmd_cancel",
                       "send_to_owner"})
       => /\ fsm_state' = fsm_state
          /\ fsm_data' = fsm_data
          /\ log_file' = log_file
          /\ ev'.op # "send_to_owner" =>
                \/ Replied(ev', "answer", "unavailable_ask")
                \/ Replied(ev', "answer", "unavailable_quick")]_vars

\* a quick-ask text with nothing but whitespace after the prefix
BlankQuick(text) ==
    /\ StartsWith(text, QuickPrefix)
    /\ \A i \in (Len(QuickPrefix) + 1)..Len(text) : IsSpace(text[i])

\* C2 (amended): with the owner identifier unset, /ask and a quick-ask message
\* with content answer with a feature-unavailable message, a quick-ask message
\* without content gets the usage hint and /cancel the nothing-to-cancel
\* answer; no conversation leaves idle, no handler of the conversation flow
\* writes the log and nothing is transmitted to the owner; send_to_owner
\* attempts no transmission and still appends its record to the log.
C2_OwnerUnset ==
    [][Unset(owner_id) =>
        /\ \A u \in Users : fsm_state'[u] = None /\ fsm_data'[u] = NoData
        /\ Transmissions(ev') = <<>>
        /\ ev'.op = "cmd_ask_owner" =>
              Replied(ev', "answer", "unavailable_ask") /\ log_file' = log_file
        /\ ev'.op = "handle_quick_ask" =>
              /\ log_file' = log_file
              /\ IF BlankQuick(ev'.text)
                 THEN Replied(ev', "answer", "quick_usage")
                 ELSE Replied(ev', "answer", "unavailable_quick")
        /\ ev'.op = "cmd_cancel" =>
              Replied(ev', "answer", "nothing_to_cancel") /\ log_file' = log_file
        /\ ev'.op \notin {"process_ask_question", "handle_ask_confirmation"}
        /\ ev'.op = "send_to_owner" =>
              /\ ~ev'.ret.telegram_sent
              /\ ev'.ret.logged =>
                    /\ ReadLog(log_file, "ok").ok
                    /\ Len(log_file'.notifications)
                         = Len(ReadLog(log_file, "ok").notifications) + 1
                    /\ log_file'.notifications[Len(log_file'.notifications)].message
                         = ev'.text]_vars

C2_Witness ==
    /\ Unset(owner_id)
    /\ ev.op = "send_to_owner"
    /\ ev.ret.logged
    /\ Len(log_file.notifications) = 1

\* a cancel: the cancel keyword in waiting_for_question, the cancel choice, or
\* /cancel handled by cmd_cancel
IsCancel(e) ==
    \/ e.op = "process_ask_question" /\ e.text \in {CmdCancelText, <<SP, "/", "C", "A", "N", "C", "E", "L", SP>>}
    \/ e.op = "handle_ask_confirmation" /\ e.cb = "ask_cancel"
    \/ e.op = "cmd_cancel"

\* C3: a cancel at any stage leaves the user idle with no pending question,
\* and causes no log record and no transmission to the owner.
C3_CancelResets ==
    [][IsCancel(ev') =>
        /\ fsm_state'[ev'.user] = None
        /\ fsm_data'[ev'.user] = NoData
        /\ log_file' = log_file
        /\ Transmissions(ev') = <<>>]_vars


\* C4: after n successful sequential appends to the initially empty log, the
\* log holds exactly min(n, 100) records, the most recently inserted ones in
\* insertion order, and never more than 100.
C4_LogTrimming ==
    (log_file.exists /\ log_file.valid) =>
        LET ns == log_file.notifications
        IN  /\ Len(ns) = Min(n_inserted, 100)
            /\ Len(ns) <= 100
            /\ \A i \in 1..Len(ns) : ns[i].message = Label(n_inserted - Len(ns) + i)

C4_Witness ==
    /\ n_inserted = 105
    /\ log_file.valid
    /\ Len(log_file.notifications) = 100
    /\ log_file.notifications[1].message = Label(6)
    /\ log_file.notifications[100].message = Label(105)

\* C5: acknowledging an id that a pending record carries sets that record to
\* "reviewed" with a non-empty reviewed_at and returns True; acknowledging an
\* id no record carries returns False and leaves the log unchanged.
C5_AcknowledgeById ==
    [][(ev'.op = "mark_notification_as_reviewed" /\ log_file.exists /\ log_file.valid)
       => LET before == log_file.notifications
              after == log_file'.notifications
              known == {i \in 1..Len(before) : before[i].id = ev'.id}
          IN  /\ (known = {}) => (~ev'.ret.found /\ log_file' = log_file)
              /\ ev'.io = "ok" =>
                    \A i \in known :
                        before[i].status = "pending" =>
                            /\ ev'.ret.found
                            /\ after[i].status = "reviewed"
                            /\ after[i].reviewed_at # None]_vars

\* C6: with owner identifier and bot instance available, send_to_owner
\* attempts the transmission whether or not the log append succeeded, keeps
\* the appended record whether or not the transmission succeeded, reports
\* logged and telegram_sent separately with one error string per failed step,
\* and returns normally.
C6_DispatchIndependence ==
    [][(/\ ev'.op = "send_to_owner"
        /\ ~Unset(owner_telegram_id)
        /\ ev'.bot # None)
       => LET sent == ev'.ret.telegram_sent
              logged == ev'.ret.logged
          IN  /\ Len(ev'.calls) = 1
              /\ ev'.calls[1].api = "send_message"
              /\ ev'.calls[1].text = ev'.text
              /\ sent = ev'.calls[1].ok
              /\ (ev'.io = "ok" /\ CanRead(log_file)) => logged
              /\ (ev'.io \in {"write_denied", "write_partial"} \/ ~CanRead(log_file))
                    => ~logged
              /\ logged =>
                    /\ Len(log_file'.notifications) = Len(Readable(log_file)) + 1
                    /\ log_file'.notifications[Len(log_file'.notifications)].message
                         = ev'.text
              /\ ~logged => Readable(log_file') \in {Readable(log_file), <<>>}
              /\ ev'.ret.errors =
                    (IF logged THEN <<>> ELSE <<"Log error">>)
                        \o (IF sent THEN <<>> ELSE <<"Telegram error">>)
              /\ ~ev'.ret.email_sent
              /\ ~ev'.raised]_vars

\* the log append failed and the message was transmitted all the same
C6_Witness ==
    /\ ev.op = "send_to_owner"
    /\ ~ev.ret.logged
    /\ ev.ret.telegram_sent
    /\ ev.ret.errors = <<"Log error">>

\* C7: every handling of a confirm or cancel choice ends with the user idle,
\* whatever the transmission and the message edits do.
C7_ResolveResets ==
    (ev.op = "handle_ask_confirmation" /\ ev.cb \in {"ask_confirm", "ask_cancel"})
        => fsm_state[ev.user] = None

\* C8: a message made of the quick-ask prefix and whitespace gets the usage
\* hint from the quick path, and leads to no transmission and no log record,
\* whatever the owner configuration.
C8_QuickAskEmpty ==
    [][(ev'.op \in {"handle_quick_ask", "process_ask_question"} /\ BlankQuick(ev'.text))
       => /\ Transmissions(ev') = <<>>
          /\ log_file' = log_file
          /\ ev'.op = "handle_quick_ask" =>
                /\ Replied(ev', "answer", "quick_usage")
                /\ fsm_state' = fsm_state
                /\ fsm_data' = fsm_data]_vars

C8_Witness ==
    /\ ev.op = "handle_quick_ask"
    /\ BlankQuick(ev.text)
    /\ Unset(owner_id)
    /\ Replied(ev, "answer", "quick_usage")

\* the content of a quick-ask text: what follows the prefix, stripped
QuickContent(text) == Strip(SubSeq(text, Len(QuickPrefix) + 1, Len(text)))

C10_LostUpdate ==
    LET c == ev.user
    IN  (/\ ev.op = "_log_notification"
         /\ ev.ret.logged
         /\ proc[c].rival.set)
        => LET mine == NewNotification(proc[c].snapshot, proc[c].message,
                                       UserInfo(c), "user_question")
               theirs == proc[c].rival.notification
               ns == log_file.notifications
           IN  /\ proc[c].rival.logged
               /\ ev.ret.notification_id = theirs.id
               /\ theirs # mine
               /\ Len(ns) = Min(Len(proc[c].snapshot) + 1, 100)
               /\ ns[Len(ns)] = mine
               /\ Len(proc[c].snapshot) < 100 =>
                     /\ SubSeq(ns, 1, Len(ns) - 1) = proc[c].snapshot
                     /\ \A i \in 1..Len(ns) : ns[i] # theirs

C10_Witness ==
    /\ ev.op = "_log_notification"
    /\ ev.ret.logged
    /\ proc[ev.user].rival.set
    /\ proc[ev.user].rival.logged
    /\ ev.ret.notification_id = proc[ev.user].rival.notification.id
    /\ Len(log_file.notifications) = 1

\* the entry points of the two modules
EntryPoints ==
    {"cmd_ask_owner", "process_ask_question", "handle_ask_confirmation",
     "handle_quick_ask", "cmd_cancel", "send_to_owner"}

\* the last operation told the user that the question could not be sent
ReportedFailure(e) ==
    \E i \in DOMAIN e.calls :
        /\ e.calls[i].msg \in {"send_error", "quick_send_error"}
        /\ e.calls[i].ok

\* C11: no entry point lets an exception escape, whatever the transmission,
\* the replies to the user and the log file I/O do, and a failed transmission
\* is reported to the user as a could-not-send response.
C11_NoEscape ==
    ev.op \in EntryPoints =>
        /\ ~ev.raised
        /\ (\E i \in DOMAIN ev.calls :
                ev.calls[i].api = "send_message" /\ ~ev.calls[i].ok)
              => (ev.op = "send_to_owner" \/ ReportedFailure(ev))

\* C13: a conversation state is one of the three states, and the only changes
\* are idle -> waiting_for_question (start command), waiting_for_question ->
\* confirming_question (text that is no cancel), waiting_for_question -> idle
\* (cancel) and confirming_question -> idle (a choice or the cancel command).
C13_TransitionRelation ==
    [][\A u \in Users :
          LET a == fsm_state[u]
              b == fsm_state'[u]
          IN  /\ a \in FsmStates
              /\ b \in FsmStates
              /\ a # b =>
                    /\ ev'.user = u
                    /\ \/ /\ a = None
                          /\ b = waiting_for_question
                          /\ ev'.op = "cmd_ask_owner"
                       \/ /\ a = waiting_for_question
                          /\ b = confirming_question
                          /\ ev'.op = "process_ask_question"
                          /\ ~IsCancel(ev')
                       \/ /\ a = waiting_for_question
                          /\ b = None
                          /\ IsCancel(ev')
                       \/ /\ a = confirming_question
                          /\ b = None
                          /\ ev'.op \in {"handle_ask_confirmation", "cmd_cancel"}]_vars

\* C17: a collected question is transmitted at most once, and only on a
\* confirm choice: a handler makes at most one transmission attempt, only
\* handle_ask_confirmation on "ask_confirm" transmits a collected question,
\* and a confirm that follows a confirm of the same user (no question was
\* collected in between) transmits nothing.
C17_SingleAttempt ==
    [][/\ Len(Transmissions(ev')) <= 1
       /\ (ev'.op \in {"cmd_ask_owner", "process_ask_question", "cmd_cancel"}
             => Transmissions(ev') = <<>>)
       /\ (ev'.op = "handle_ask_confirmation" /\ Transmissions(ev') # <<>>)
             => /\ ev'.cb = "ask_confirm"
                /\ fsm_state[ev'.user] = confirming_question
                /\ ~(/\ ev.op = "handle_ask_confirmation"
                     /\ ev.user = ev'.user
                     /\ Transmissions(ev) # <<>>)]_vars

\* C18: a user in confirming_question has stored the whole (stripped) text of
\* the message process_ask_question handled last for this user, not its
\* 300-character preview; nothing but that handler brings a user into
\* confirming_question or changes the question stored there; the confirm
\* choice transmits exactly the stored question of the user who pressed it;
\* and no event of another user changes a user's state or stored question.
C18_PendingQuestion ==
    [][\A u \in Users :
          LET mine == ev'.user = u
          IN  /\ (mine /\ ev'.op = "process_ask_question"
                       /\ fsm_state'[u] = confirming_question)
                    => fsm_data'[u] = [has |-> TRUE, question |-> Strip(ev'.text)]
              /\ (fsm_state'[u] = confirming_question
                       /\ ~(mine /\ ev'.op = "process_ask_question"))
                    => /\ fsm_state[u] = confirming_question
                       /\ fsm_data'[u] = fsm_data[u]
              /\ (mine /\ ev'.op = "handle_ask_confirmation"
                       /\ Transmissions(ev') # <<>>)
                    => /\ fsm_data[u].has
                       /\ Transmissions(ev')[1].text = fsm_data[u].question
                       /\ Transmissions(ev')[1].sender.id = u
              /\ ~mine => (fsm_state'[u] = fsm_state[u] /\ fsm_data'[u] = fsm_data[u])]_vars

\* user 2 confirms a question longer than the preview while user 1 waits for
\* a confirmation of another question
C18_Witness ==
    /\ ev.op = "handle_ask_confirmation"
    /\ ev.user = 2
    /\ Transmissions(ev) # <<>>
    /\ Transmissions(ev)[1].text = LongText
    /\ Len(LongText) > PreviewLen
    /\ fsm_state[1] = confirming_question
    /\ fsm_data[1].question = <<"Q", "2">>

\* C12 as stated: an appended record gets id = count before the append + 1;
\* while no record has been trimmed the ids in the log are 1..n in insertion
\* order; once records have been trimmed, the new id is the id of a record
\* trimmed before.
C12_Original ==
    [][(ev'.op = "_log_notification" /\ ev'.ret.logged)
       => LET before == Readable(log_file)
              after == log_file'.notifications
              new == after[Len(after)]
          IN  /\ new.id = Len(before) + 1
              /\ ev'.ret.notification_id = new.id
              /\ trimmed_ids' = {} => \A i \in 1..Len(after) : after[i].id = i
              /\ trimmed_ids # {} => new.id \in trimmed_ids]_vars

\* C12 (amended): an appended record gets id = count before the append + 1;
\* while no record has been trimmed the ids in the log are 1..n in insertion
\* order; once records have been trimmed every new id is 101, the id of the
\* record appended just before, which is still in the log, so ids in the
\* log are no longer unique nor strictly increasing (they never decrease);
\* the new id is the id of a trimmed record only from the 202nd append on.
C12_IdAssignment ==
    [][(ev'.op = "_log_notification" /\ ev'.ret.logged)
       => LET before == Readable(log_file)
              after == log_file'.notifications
              new == after[Len(after)]
          IN  /\ new.id = Len(before) + 1
              /\ ev'.ret.notification_id = new.id
              /\ trimmed_ids' = {} => \A i \in 1..Len(after) : after[i].id = i
              /\ \A i \in 1..(Len(after) - 1) : after[i].id <= after[i + 1].id
              /\ trimmed_ids # {} =>
                    /\ new.id = LogCap + 1
                    /\ after[Len(after) - 1].id = new.id
                    /\ new.id \in trimmed_ids <=> n_inserted' >= 2 * LogCap + 2]_vars

\* the 202nd append: its id 101 is the id of the record before it in the log
\* and of the 101st record, which the 201st append trimmed
C12_Witness ==
    /\ ev.op = "_log_notification"
    /\ ev.ret.logged
    /\ n_inserted = 2 * LogCap + 2
    /\ ev.ret.notification_id = LogCap + 1
    /\ ev.ret.notification_id \in trimmed_ids
    /\ log_file.notifications[LogCap].id = log_file.notifications[LogCap - 1].id

\* C14: every send_to_owner call makes its log append first and only then
\* goes on to the transmission; the transmission is attempted exactly when an
\* owner identifier and a bot instance are there; when one is missing the
\* record is appended all the same and the call returns telegram_sent =
\* False, email_sent = False and no transmission error.
C14_DispatchOrder ==
    [][/\ ev'.op = "send_to_owner.log" =>
             /\ Transmissions(ev') = <<>>
             /\ (ev'.io = "ok" /\ CanRead(log_file)) =>
                   /\ ev'.ret.logged
                   /\ log_file'.notifications
                        = Append(Readable(log_file),
                                 NewNotification(Readable(log_file), ev'.text,
                                                 UserInfo(ev'.user), "user_question"))
       /\ ev'.op = "send_to_owner" =>
             LET attempted == Transmissions(ev') # <<>>
             IN  /\ ev.op = "send_to_owner.log"
                 /\ ev'.user = ev.user /\ ev'.text = ev.text
                 /\ log_file' = log_file
                 /\ ev'.ret.logged = ev.ret.logged
                 /\ attempted <=> (~Unset(owner_telegram_id) /\ ev'.bot # None)
                 /\ Len(ev'.calls) = (IF attempted THEN 1 ELSE 0)
                 /\ ~attempted =>
                       /\ ~ev'.ret.telegram_sent
                       /\ ~ev'.ret.email_sent
                       /\ ev'.ret.errors = (IF ev'.ret.logged THEN <<>>
                                            ELSE <<"Log error">>)]_vars

\* a call with an owner identifier and without a bot instance has returned:
\* nothing was transmitted and the record is in the log
C14_Witness ==
    /\ ev.op = "send_to_owner"
    /\ ~Unset(owner_telegram_id)
    /\ ev.bot = None
    /\ ev.calls = <<>>
    /\ ev.ret.logged
    /\ ~ev.ret.telegram_sent
    /\ ev.ret.errors = <<>>
    /\ Len(log_file.notifications) = 1
    /\ log_file.notifications[1].message = ev.text

\* C15: mark_notification_as_reviewed(id) sets the first record, in log
\* order, whose id is id to "reviewed" and stamps it with the time of the
\* call, whatever its status was; every other record, the number of records
\* and their order stay, also when several records carry the id.
C15_AcknowledgeFrame ==
    [][(/\ ev'.op = "mark_notification_as_reviewed"
        /\ log_file.exists
        /\ log_file.valid)
       => LET before == log_file.notifications
              after == log_file'.notifications
              first(j) == /\ before[j].id = ev'.id
                          /\ \A k \in 1..(j - 1) : before[k].id # ev'.id
          IN  /\ ev'.io = "ok" =>
                    /\ Len(after) = Len(before)
                    /\ ev'.ret.found <=> \E j \in 1..Len(before) : first(j)
                    /\ \A j \in 1..Len(before) :
                          IF first(j)
                          THEN after[j] = [before[j] EXCEPT
                                              !.status = "reviewed",
                                              !.reviewed_at = Stamps[n_acks']]
                          ELSE after[j] = before[j]
              /\ ev'.io \in {"read_error", "write_denied"} =>
                    (log_file' = log_file /\ ~ev'.ret.found)]_vars

\* the second acknowledgement of an id that two records carry: the first of
\* them has the stamp of this call and the second is still pending
C15_Witness ==
    /\ ev.op = "mark_notification_as_reviewed"
    /\ ev.ret.found
    /\ n_acks = 2
    /\ \E i, j \in 1..Len(log_file.notifications) :
          /\ i < j
          /\ log_file.notifications[i].id = ev.id
          /\ log_file.notifications[j].id = ev.id
          /\ log_file.notifications[i].reviewed_at = Stamps[2]
          /\ log_file.notifications[j].status = "pending"
    /\ \A k \in 1..Len(log_file.notifications) :
          log_file.notifications[k].reviewed_at # Stamps[1]

\* C16: get_pending_notifications returns the records of the log whose status
\* is "pending", each once and in log order, and changes nothing; a record
\* that is reviewed or no longer in the log is not returned; the result is
\* empty when the file is missing or cannot be read.
C16_PendingQuery ==
    [][ev'.op = "get_pending_notifications"
       => LET ns == log_file.notifications
              got == ev'.ret.pending
              readable == log_file.exists /\ log_file.valid /\ ev'.io = "ok"
              rank(i) == Cardinality({j \in 1..i : ns[j].status = "pending"})
          IN  /\ log_file' = log_file
              /\ n_inserted' = n_inserted /\ n_acks' = n_acks
              /\ ~readable => got = <<>>
              /\ readable =>
                    /\ Len(got) = rank(Len(ns))
                    /\ \A i \in 1..Len(ns) :
                          ns[i].status = "pending" => got[rank(i)] = ns[i]]_vars

\* a query on a full log that has been trimmed and holds one reviewed record:
\* the result is the log without that record
C16_Witness ==
    /\ ev.op = "get_pending_notifications"
    /\ n_inserted > LogCap
    /\ Len(log_file.notifications) = LogCap
    /\ Len(ev.ret.pending) = LogCap - 1
    /\ ev.ret.pending[1] = log_file.notifications[1]
    /\ \E i \in 2..(LogCap - 1) :
          /\ log_file.notifications[i].status = "reviewed"
          /\ ev.ret.pending[i] = log_file.notifications[i + 1]

\* C19: for every pending record of the log, mark_notification_as_reviewed
\* called with the id of the record sets that record to "reviewed".
C19_EveryPendingAcknowledgeable ==
    (log_file.exists /\ log_file.valid) =>
        \A i \in 1..Len(log_file.notifications) :
            log_file.notifications[i].status = "pending" =>
                LET r == mark_notification_as_reviewed(
                             log_file, log_file.notifications[i].id, "ok", Now)
                IN  /\ r.found
                    /\ r.file.notifications[i].status = "reviewed"

\* two entries of the file are the same record: they agree in everything but
\* status and reviewed_at
SameRecord(m, n) ==
    /\ m.id = n.id
    /\ m.timestamp = n.timestamp
    /\ m.type = n.type
    /\ m.user_info = n.user_info
    /\ m.message = n.message

\* C20: a record whose status in the file is "reviewed" is not in the file
\* with status "pending" after any step of any caller.
C20_StatusNeverGoesBack ==
    [][\A i \in 1..Len(log_file.notifications) :
          log_file.notifications[i].status = "reviewed" =>
              \A j \in 1..Len(log_file'.notifications) :
                  SameRecord(log_file'.notifications[j], log_file.notifications[i])
                      => log_file'.notifications[j].status # "pending"]_vars

====
